---- MODULE Spec2Model ----
(***************************************************************************)
(* Model of create_lambda_layer.py: the command-line entry point main and  *)
(* the workflow create_lambda_layer (workspace setup, pip installs,        *)
(* archiving, optional publish, teardown).                                 *)
(*                                                                         *)
(* A path is the sequence of its components from the filesystem root.      *)
(* An optional value is <<>> (None) or <<v>>.  The external steps that     *)
(* can fail (workspace setup, the package manager, archive I/O, the        *)
(* publish call, the teardown) either succeed or raise; input(), print(),  *)
(* boto3.client() and the read of the archive are taken to succeed.        *)
(* A layer name is a path expression, since line 28 joins it into a path.  *)
(***************************************************************************)
EXTENDS Naturals, Sequences, FiniteSets, Bags

VARIABLES
    entry,              \* "main": run started by main(); "api": create_lambda_layer called directly
    argv,               \* the parsed command line, as parse_args returned it
    args,               \* the argparse namespace (main may overwrite args.libraries)
    user_input,         \* <<>> or <<raw answer>> typed at the prompt
    prompts,            \* number of prompts issued by input()
    calls,              \* number of calls of create_lambda_layer
    libraries, layer_name, runtime, region_name, upload, requirements_file,
    pc,                 \* position in main / create_lambda_layer
    temp_dir,           \* <<>> until mkdtemp returned, then the workspace path
    fsDirs, fsFiles,    \* the filesystem: directories and regular files
    i,                  \* index of the next library of the for loop
    pipCalls,           \* package-manager invocations, in order
    zip_file,           \* <<>> until line 28, then the archive path
    zf,                 \* "none", "open" or "closed": the ZipFile object
    entries,            \* bag of the names of the entries written into the archive
    walkTodo,           \* files os.walk has still to yield
    atArchiving,        \* files under package_dir when the installs were over
    zipWrites, zipReads,\* times the archive file was opened for writing / read
    publishCalls,       \* requests received by publish_layer_version
    response,           \* <<>> or <<response of the publish call>>
    stdout,             \* what print() wrote
    exc,                \* exception chain in flight: last is the one propagating
    result,             \* "running", "returned" or "raised"
    trace               \* the steps executed so far, in order

vars == <<entry, argv, args, user_input, prompts, calls, libraries, layer_name,
          runtime, region_name, upload, requirements_file, pc, temp_dir, fsDirs,
          fsFiles, i, pipCalls, zip_file, zf, entries, walkTodo, atArchiving,
          zipWrites, zipReads, publishCalls, response, stdout, exc, result, trace>>

mainVars == <<entry, argv, args, user_input, prompts, calls>>
paramVars == <<libraries, layer_name, runtime, region_name, upload, requirements_file>>
fsVars == <<fsDirs, fsFiles>>
zipVars == <<zip_file, zf, entries, walkTodo, zipWrites>>
pubVars == <<zipReads, publishCalls, response, stdout>>

\* ---------------------------------------------------------------- bounds
MaxLibs == 2
MaxInput == 3

\* ---------------------------------------------------------------- values
None == <<>>
Some(v) == <<v>>

\* Python truthiness of an optional list or string: None, [] and '' are falsy.
Truthy(opt) == opt # None /\ Len(opt[1]) > 0

LibNames == {"a", "b"}
Whitespace == {" ", "\t"}
Chars == {"a"} \cup Whitespace

SeqsUpTo(S, n) == UNION {[1..k -> S] : k \in 0..n}

LibLists == SeqsUpTo(LibNames, MaxLibs)
Inputs == SeqsUpTo(Chars, MaxInput)

Runtimes == {"python3.10", "python3.12"}
Regions == {"us-east-1"}
Manifests == {None, Some(""), Some("requirements.txt")}
Responses == {"version1", "version2"}

\* A layer name as a path expression: absolute or relative, with components.
DefaultLayerName == [abs |-> FALSE, parts |-> <<"">>]
LayerNames == {
    [abs |-> FALSE, parts |-> <<"layer">>],
    [abs |-> FALSE, parts |-> <<"python", "layer">>],
    [abs |-> FALSE, parts |-> <<"nodir", "layer">>],
    [abs |-> TRUE,  parts |-> <<"out", "layer">>] }

\* ---------------------------------------------------------------- paths
Front(s) == SubSeq(s, 1, Len(s) - 1)
Last(s) == s[Len(s)]

IsPrefix(p, q) == Len(p) <= Len(q) /\ SubSeq(q, 1, Len(p)) = p

\* os.path.join(a, b): an absolute b discards a.
Join(a, b) == IF b.abs THEN b.parts ELSE a \o b.parts

\* f"{layer_name}.zip"
ZipName(n) == [abs |-> n.abs, parts |-> Front(n.parts) \o <<Last(n.parts) \o ".zip">>]

RECURSIVE CommonLen(_, _)
CommonLen(p, q) ==
    IF p = <<>> \/ q = <<>> \/ p[1] # q[1] THEN 0
    ELSE 1 + CommonLen(Tail(p), Tail(q))

\* os.path.relpath(path, start)
RelPath(path, start) ==
    LET k == CommonLen(path, start)
    IN  [j \in 1..(Len(start) - k) |-> ".."] \o SubSeq(path, k + 1, Len(path))

MkdtempPath == <<"tmp", "ws">>
PackageDir(t) == Join(t, [abs |-> FALSE, parts |-> <<"python">>])

Under(d, files) == {f \in files : IsPrefix(d, f) /\ f # d}

\* ---------------------------------------------------------------- main
\* str.strip() and str.split() on a sequence of characters
RECURSIVE LStrip(_)
LStrip(s) == IF s # <<>> /\ s[1] \in Whitespace THEN LStrip(Tail(s)) ELSE s

RECURSIVE RStrip(_)
RStrip(s) == IF s # <<>> /\ Last(s) \in Whitespace THEN RStrip(Front(s)) ELSE s

Strip(s) == RStrip(LStrip(s))

RECURSIVE Str(_)
Str(w) == IF w = <<>> THEN "" ELSE w[1] \o Str(Tail(w))

RECURSIVE SplitFrom(_, _)
SplitFrom(s, word) ==
    IF s = <<>> THEN (IF word = <<>> THEN <<>> ELSE <<Str(word)>>)
    ELSE IF s[1] \in Whitespace
         THEN (IF word = <<>> THEN <<>> ELSE <<Str(word)>>) \o SplitFrom(Tail(s), <<>>)
         ELSE SplitFrom(Tail(s), Append(word, s[1]))

Split(s) == SplitFrom(s, <<>>)

ArgSpace ==
    [libraries: {None} \cup {Some(l) : l \in LibLists \ {<<>>}},
     layer_name: LayerNames,
     runtime: Runtimes,
     region: Regions,
     no_upload: BOOLEAN,
     requirements_file: Manifests]

NoArgs ==
    [libraries |-> None, layer_name |-> DefaultLayerName, runtime |-> "python3.10",
     region |-> "us-east-1", no_upload |-> FALSE, requirements_file |-> None]

NeedPromptAnyManifest(a) == ~Truthy(a.libraries)

NeedPrompt(a) == ~Truthy(a.libraries) /\ ~Truthy(a.requirements_file)

WorkflowInit ==
    /\ user_input = None /\ prompts = 0
    /\ temp_dir = <<>>
    /\ fsDirs = {<<>>, <<"tmp">>, <<"out">>}
    /\ fsFiles = {}
    /\ i = 1
    /\ pipCalls = <<>>
    /\ zip_file = <<>> /\ zf = "none" /\ entries = EmptyBag /\ walkTodo = {}
    /\ atArchiving = {}
    /\ zipWrites = 0 /\ zipReads = 0
    /\ publishCalls = <<>> /\ response = None /\ stdout = <<>>
    /\ exc = <<>> /\ result = "running" /\ trace = <<>>

InitMain ==
    /\ entry = "main"
    /\ argv \in ArgSpace
    /\ args = argv
    /\ calls = 0
    /\ libraries = None /\ layer_name = DefaultLayerName /\ runtime = "python3.10"
    /\ region_name = "us-east-1" /\ upload = TRUE /\ requirements_file = None
    /\ pc = "main"
    /\ WorkflowInit

InitApi ==
    /\ entry = "api"
    /\ argv = NoArgs /\ args = NoArgs
    /\ calls = 1
    /\ libraries \in {None} \cup {Some(l) : l \in LibLists}
    /\ layer_name \in LayerNames
    /\ runtime \in Runtimes
    /\ region_name \in Regions
    /\ upload \in BOOLEAN
    /\ requirements_file \in Manifests
    /\ pc = "mkdtemp"
    /\ WorkflowInit

Init == InitMain \/ InitApi

Step(name) == trace' = Append(trace, name)

Prompt ==
    /\ pc = "main"
    /\ NeedPrompt(args)
    /\ \E raw \in Inputs :
          /\ user_input' = Some(raw)
          /\ args' = [args EXCEPT !.libraries =
                         IF Strip(raw) # <<>> THEN Some(Split(Strip(raw))) ELSE None]
    /\ prompts' = prompts + 1
    /\ pc' = "call"
    /\ Step("input")
    /\ UNCHANGED <<entry, argv, calls, paramVars, temp_dir, fsVars, i, pipCalls,
                   zipVars, atArchiving, pubVars, exc, result>>

SkipPrompt ==
    /\ pc = "main"
    /\ ~NeedPrompt(args)
    /\ pc' = "call"
    /\ UNCHANGED <<mainVars, paramVars, temp_dir, fsVars, i, pipCalls, zipVars,
                   atArchiving, pubVars, exc, result, trace>>

CallCreate ==
    /\ pc = "call"
    /\ libraries' = args.libraries
    /\ layer_name' = args.layer_name
    /\ runtime' = args.runtime
    /\ region_name' = args.region
    /\ upload' = ~args.no_upload
    /\ requirements_file' = args.requirements_file
    /\ calls' = calls + 1
    /\ pc' = "mkdtemp"
    /\ UNCHANGED <<entry, argv, args, user_input, prompts, temp_dir, fsVars, i,
                   pipCalls, zipVars, atArchiving, pubVars, exc, result, trace>>

\* ---------------------------------------------------------------- workflow
wfRest == <<mainVars, paramVars>>

Mkdtemp ==
    /\ pc = "mkdtemp"
    /\ temp_dir' = MkdtempPath
    /\ fsDirs' = fsDirs \cup {MkdtempPath}
    /\ pc' = "makedirs"
    /\ Step("mkdtemp")
    /\ UNCHANGED <<wfRest, fsFiles, i, pipCalls, zipVars, atArchiving, pubVars, exc, result>>

\* mkdtemp raises: nothing was created, and the call is outside the try
MkdtempFail ==
    /\ pc = "mkdtemp"
    /\ exc' = <<"mkdtemp_OSError">>
    /\ result' = "raised"
    /\ pc' = "done"
    /\ Step("mkdtemp_fail")
    /\ UNCHANGED <<wfRest, temp_dir, fsVars, i, pipCalls, zipVars, atArchiving, pubVars>>

Makedirs ==
    /\ pc = "makedirs"
    /\ fsDirs' = fsDirs \cup {PackageDir(temp_dir)}
    /\ pc' = "install"
    /\ Step("makedirs")
    /\ UNCHANGED <<wfRest, temp_dir, fsFiles, i, pipCalls, zipVars, atArchiving, pubVars, exc, result>>

\* os.makedirs raises: line 15 is before the try of line 17, no finally runs
MakedirsFail ==
    /\ pc = "makedirs"
    /\ exc' = <<"makedirs_OSError">>
    /\ result' = "raised"
    /\ pc' = "done"
    /\ Step("makedirs_fail")
    /\ UNCHANGED <<wfRest, temp_dir, fsVars, i, pipCalls, zipVars, atArchiving, pubVars>>

MoreLibrariesButLast == Truthy(libraries) /\ i < Len(libraries[1])

MoreLibraries == Truthy(libraries) /\ i <= Len(libraries[1])

PipStart ==
    /\ pc = "install"
    /\ MoreLibraries
    /\ pipCalls' = Append(pipCalls, [kind |-> "library", target |-> libraries[1][i],
                                     dir |-> PackageDir(temp_dir)])
    /\ pc' = "pip_wait"
    /\ Step("pip_start")
    /\ UNCHANGED <<wfRest, temp_dir, fsVars, i, zipVars, atArchiving, pubVars, exc, result>>

InstallDone ==
    /\ pc = "install"
    /\ ~MoreLibraries
    /\ pc' = "manifest"
    /\ UNCHANGED <<wfRest, temp_dir, fsVars, i, pipCalls, zipVars, atArchiving, pubVars, exc, result, trace>>

ManifestStart ==
    /\ pc = "manifest"
    /\ Truthy(requirements_file)
    /\ pipCalls' = Append(pipCalls, [kind |-> "manifest", target |-> requirements_file[1],
                                     dir |-> PackageDir(temp_dir)])
    /\ pc' = "pip_wait"
    /\ Step("pip_start")
    /\ UNCHANGED <<wfRest, temp_dir, fsVars, i, zipVars, atArchiving, pubVars, exc, result>>

ManifestSkip ==
    /\ pc = "manifest"
    /\ ~Truthy(requirements_file)
    /\ pc' = "zip"
    /\ UNCHANGED <<wfRest, temp_dir, fsVars, i, pipCalls, zipVars, atArchiving, pubVars, exc, result, trace>>

\* What a successful "pip install <target> -t <dir>" leaves in dir, which the
\* target decides: a single module file for the distribution "b", a package
\* directory with a file in it for every other one.
Installed(call) ==
    IF call.kind = "library" /\ call.target = "b"
    THEN [dirs |-> {}, files |-> {call.dir \o <<"b.py">>}]
    ELSE [dirs |-> {call.dir \o <<call.target>>},
          files |-> {call.dir \o <<call.target, "__init__.py">>}]

\* check_call returns: exit status 0
PipExit ==
    /\ pc = "pip_wait"
    /\ LET call == Last(pipCalls) IN
         /\ fsDirs' = fsDirs \cup Installed(call).dirs
         /\ fsFiles' = fsFiles \cup Installed(call).files
         /\ IF call.kind = "library"
            THEN i' = i + 1 /\ pc' = "install"
            ELSE i' = i /\ pc' = "zip"
    /\ Step("pip_exit")
    /\ UNCHANGED <<wfRest, temp_dir, pipCalls, zipVars, atArchiving, pubVars, exc, result>>

PipFailIgnored ==
    /\ pc = "pip_wait"
    /\ IF Last(pipCalls).kind = "library"
       THEN i' = i + 1 /\ pc' = "install"
       ELSE i' = i /\ pc' = "zip"
    /\ Step("pip_fail")
    /\ UNCHANGED <<wfRest, temp_dir, fsVars, pipCalls, zipVars, atArchiving, pubVars, exc, result>>

\* check_call raises CalledProcessError: non-zero exit status
PipFail ==
    /\ pc = "pip_wait"
    /\ exc' = <<"CalledProcessError">>
    /\ pc' = "finally"
    /\ Step("pip_fail")
    /\ UNCHANGED <<wfRest, temp_dir, fsVars, i, pipCalls, zipVars, atArchiving, pubVars, result>>

ZipPath ==
    /\ pc = "zip"
    /\ zip_file' = Join(temp_dir, ZipName(layer_name))
    /\ atArchiving' = Under(PackageDir(temp_dir), fsFiles)
    /\ pc' = "zip_open"
    /\ UNCHANGED <<wfRest, temp_dir, fsVars, i, pipCalls, zf, entries, walkTodo, zipWrites,
                   pubVars, exc, result, trace>>

\* zipfile.ZipFile(zip_file, 'w'): creates the file, then os.walk lists package_dir
ZipOpen ==
    /\ pc = "zip_open"
    /\ Front(zip_file) \in fsDirs
    /\ fsFiles' = fsFiles \cup {zip_file}
    /\ zf' = "open"
    /\ zipWrites' = zipWrites + 1
    /\ walkTodo' = Under(PackageDir(temp_dir), fsFiles')
    /\ pc' = "zip_write"
    /\ Step("zip_open")
    /\ UNCHANGED <<wfRest, temp_dir, fsDirs, i, pipCalls, zip_file, entries, atArchiving,
                   pubVars, exc, result>>

\* the directory the archive is to be created in does not exist
ZipOpenNoDir ==
    /\ pc = "zip_open"
    /\ Front(zip_file) \notin fsDirs
    /\ exc' = <<"FileNotFoundError">>
    /\ pc' = "finally"
    /\ Step("zip_fail")
    /\ UNCHANGED <<wfRest, temp_dir, fsVars, i, pipCalls, zipVars, atArchiving, pubVars, result>>

\* any other I/O error while opening the archive
ZipOpenFail ==
    /\ pc = "zip_open"
    /\ Front(zip_file) \in fsDirs
    /\ exc' = <<"zip_OSError">>
    /\ pc' = "finally"
    /\ Step("zip_fail")
    /\ UNCHANGED <<wfRest, temp_dir, fsVars, i, pipCalls, zipVars, atArchiving, pubVars, result>>

\* zf.write(full_path, relative_path) for the next file of the walk
ZipWrite ==
    /\ pc = "zip_write"
    /\ \E full_path \in walkTodo :
          /\ entries' = entries (+) SetToBag({RelPath(full_path, temp_dir)})
          /\ walkTodo' = walkTodo \ {full_path}
    /\ pc' = "zip_write"
    /\ Step("zip_write")
    /\ UNCHANGED <<wfRest, temp_dir, fsVars, i, pipCalls, zip_file, zf, zipWrites, atArchiving,
                   pubVars, exc, result>>

\* I/O error while writing: the with statement closes the archive and re-raises
ZipWriteFail ==
    /\ pc = "zip_write"
    /\ walkTodo # {}
    /\ zf' = "closed"
    /\ exc' = <<"zip_OSError">>
    /\ pc' = "finally"
    /\ Step("zip_fail")
    /\ UNCHANGED <<wfRest, temp_dir, fsVars, i, pipCalls, zip_file, entries, walkTodo, zipWrites,
                   atArchiving, pubVars, result>>

ZipClose ==
    /\ pc = "zip_write"
    /\ walkTodo = {}
    /\ zf' = "closed"
    /\ pc' = "branch"
    /\ Step("zip_close")
    /\ UNCHANGED <<wfRest, temp_dir, fsVars, i, pipCalls, zip_file, entries, walkTodo, zipWrites,
                   atArchiving, pubVars, exc, result>>

RECURSIVE JoinWith(_, _)
JoinWith(sep, items) ==
    IF items = <<>> THEN <<>>
    ELSE IF Len(items) = 1 THEN <<items[1]>>
    ELSE <<items[1], sep>> \o JoinWith(sep, Tail(items))

DescriptionCommaOnly(libs) ==
    <<"Lambda layer for ">> \o
        (IF Truthy(libs) THEN JoinWith(",", libs[1]) ELSE <<"multiple libraries">>)

\* f'Lambda layer for {", ".join(libraries) if libraries else "multiple libraries"}'
\* as the sequence of the pieces concatenated
Description(libs) ==
    <<"Lambda layer for ">> \o
        (IF Truthy(libs) THEN JoinWith(", ", libs[1]) ELSE <<"multiple libraries">>)

CreateClientAlways ==
    /\ pc = "branch"
    /\ pc' = "read"
    /\ Step("client")
    /\ UNCHANGED <<wfRest, temp_dir, fsVars, i, pipCalls, zipVars, atArchiving, pubVars, exc, result>>

CreateClient ==
    /\ pc = "branch"
    /\ upload
    /\ pc' = "read"
    /\ Step("client")
    /\ UNCHANGED <<wfRest, temp_dir, fsVars, i, pipCalls, zipVars, atArchiving, pubVars, exc, result>>

\* open(zip_file, 'rb'), f.read() and the call of publish_layer_version
PublishCall ==
    /\ pc = "read"
    /\ zipReads' = zipReads + 1
    /\ publishCalls' = Append(publishCalls,
          [LayerName |-> layer_name,
           Description |-> Description(libraries),
           Content |-> entries,
           CompatibleRuntimes |-> <<runtime>>,
           region |-> region_name])
    /\ pc' = "publish_wait"
    /\ Step("publish_start")
    /\ UNCHANGED <<wfRest, temp_dir, fsVars, i, pipCalls, zipVars, atArchiving, response, stdout,
                   exc, result>>

PublishReturn ==
    /\ pc = "publish_wait"
    /\ \E r \in Responses : response' = Some(r)
    /\ pc' = "print"
    /\ Step("publish_end")
    /\ UNCHANGED <<wfRest, temp_dir, fsVars, i, pipCalls, zipVars, atArchiving, zipReads,
                   publishCalls, stdout, exc, result>>

PublishRaiseRetried ==
    /\ pc = "publish_wait"
    /\ pc' = "read"
    /\ Step("publish_fail")
    /\ UNCHANGED <<wfRest, temp_dir, fsVars, i, pipCalls, zipVars, atArchiving, pubVars, exc, result>>

PublishRaise ==
    /\ pc = "publish_wait"
    /\ exc' = <<"ClientError">>
    /\ pc' = "finally"
    /\ Step("publish_fail")
    /\ UNCHANGED <<wfRest, temp_dir, fsVars, i, pipCalls, zipVars, atArchiving, pubVars, result>>

PrintResponse ==
    /\ pc = "print"
    /\ stdout' = Append(stdout, [kind |-> "response", response |-> response[1], path |-> <<>>])
    /\ pc' = "finally"
    /\ Step("print")
    /\ UNCHANGED <<wfRest, temp_dir, fsVars, i, pipCalls, zipVars, atArchiving, zipReads,
                   publishCalls, response, exc, result>>

PrintPath ==
    /\ pc = "branch"
    /\ ~upload
    /\ stdout' = Append(stdout, [kind |-> "path", response |-> "", path |-> zip_file])
    /\ pc' = "finally"
    /\ Step("print")
    /\ UNCHANGED <<wfRest, temp_dir, fsVars, i, pipCalls, zipVars, atArchiving, zipReads,
                   publishCalls, response, exc, result>>

\* shutil.rmtree(temp_dir) in the finally clause; a pending exception is re-raised
Rmtree ==
    /\ pc = "finally"
    /\ fsDirs' = fsDirs \ ({temp_dir} \cup Under(temp_dir, fsDirs))
    /\ fsFiles' = fsFiles \ Under(temp_dir, fsFiles)
    /\ result' = IF exc = <<>> THEN "returned" ELSE "raised"
    /\ pc' = "done"
    /\ Step("rmtree")
    /\ UNCHANGED <<wfRest, temp_dir, i, pipCalls, zipVars, atArchiving, pubVars, exc>>

\* rmtree raises at the first entry it cannot remove: the files it visited
\* before are gone, the others and the workspace directory are not.  The new
\* exception replaces the pending one, which becomes its context.
RmtreeFail ==
    /\ pc = "finally"
    /\ \E removed \in SUBSET Under(temp_dir, fsFiles) : fsFiles' = fsFiles \ removed
    /\ exc' = Append(exc, "rmtree_OSError")
    /\ result' = "raised"
    /\ pc' = "done"
    /\ Step("rmtree_fail")
    /\ UNCHANGED <<wfRest, temp_dir, fsDirs, i, pipCalls, zipVars, atArchiving, pubVars>>

Next ==
    \/ Prompt \/ SkipPrompt \/ CallCreate
    \/ Mkdtemp \/ MkdtempFail \/ Makedirs \/ MakedirsFail
    \/ PipStart \/ InstallDone \/ ManifestStart \/ ManifestSkip \/ PipExit \/ PipFail
    \/ ZipPath \/ ZipOpen \/ ZipOpenNoDir \/ ZipOpenFail \/ ZipWrite \/ ZipWriteFail \/ ZipClose
    \/ CreateClient \/ PublishCall \/ PublishReturn \/ PublishRaise \/ PrintResponse \/ PrintPath
    \/ Rmtree \/ RmtreeFail

Spec == Init /\ [][Next]_vars

\* ================================================================ properties
Occurs(e) == \E p \in DOMAIN trace : trace[p] = e
Ended == result # "running"
TeardownRan == Occurs("rmtree") \/ Occurs("rmtree_fail")
Requested == IF libraries = None THEN <<>> ELSE libraries[1]
ManifestGiven == requirements_file # None /\ requirements_file # Some("")
InWorkflow == calls = 1

\* C1: once the workflow has returned or raised, on every exit path, the
\* workspace directory created by the invocation does not exist.
C1_WorkspaceGone ==
    (Ended /\ temp_dir # <<>>) => temp_dir \notin fsDirs

\* C2: when a package-manager invocation exits non-zero, no later install is
\* invoked, the archive is never created, publish is never called, the
\* package manager's error is the one that reaches the caller, and the
\* teardown has run.
PipFailed == Occurs("pip_fail")
C2_Aborted ==
    /\ \A p \in DOMAIN trace : trace[p] = "pip_fail" =>
          \A q \in (p + 1)..Len(trace) :
             trace[q] \notin {"pip_start", "zip_open", "zip_write", "zip_close",
                              "client", "publish_start", "print"}
    /\ PipFailed => /\ zip_file = <<>> /\ zf = "none" /\ zipWrites = 0
                    /\ publishCalls = <<>>
                    /\ pc \in {"finally", "done"}
C2_PipErrorPropagates ==
    /\ C2_Aborted
    /\ (PipFailed /\ Ended) =>
          /\ result = "raised"
          /\ Last(exc) = "CalledProcessError"
          /\ TeardownRan

\* C2 as amended: the same, except that when the teardown itself raises, the
\* teardown's error reaches the caller with the package manager's error as
\* its context.
C2_PipErrorOrTeardownError ==
    /\ C2_Aborted
    /\ (PipFailed /\ Ended) =>
          /\ result = "raised"
          /\ TeardownRan
          /\ IF Occurs("rmtree_fail")
             THEN exc = <<"CalledProcessError", "rmtree_OSError">>
             ELSE exc = <<"CalledProcessError">>
C2_Witness ==
    /\ PipFailed /\ Ended /\ Occurs("rmtree")
    /\ Len(Requested) = 2 /\ Len(pipCalls) = 1

\* C3: after archiving, the archive holds one entry for each file that was
\* under the 'python' subdirectory when archiving began and no other entry,
\* each named by its path relative to the workspace, starting with 'python'.
C3_ArchiveExact ==
    Occurs("zip_close") =>
       /\ BagToSet(entries) = {RelPath(f, temp_dir) : f \in atArchiving}
       /\ \A e \in BagToSet(entries) : CopiesIn(e, entries) = 1 /\ e[1] = "python"

\* C4: the archive file is created inside the workspace, is written once and
\* read at most once, only for upload, and does not exist once the run ended.
C4_ArchiveRemoved ==
    /\ zipWrites <= 1 /\ zipReads <= 1
    /\ zipReads = 1 => upload
    /\ zipWrites = 1 => IsPrefix(temp_dir, zip_file)
    /\ (Ended /\ zipWrites = 1) => zip_file \notin fsFiles

\* C5: the publish call receives the description made of the fixed prefix and
\* every requested library name, in list order, separated by ', ' (or the
\* text 'multiple libraries' when none was named), the layer name as
\* LayerName and the runtime as the only element of CompatibleRuntimes.
C5_PublishRequest ==
    \A k \in DOMAIN publishCalls :
       LET r == publishCalls[k]
           d == r.Description
           n == Len(Requested)
       IN  /\ r.LayerName = layer_name
           /\ r.CompatibleRuntimes = <<runtime>>
           /\ d[1] = "Lambda layer for "
           /\ IF n = 0
              THEN d = <<"Lambda layer for ", "multiple libraries">>
              ELSE /\ Len(d) = 2 * n
                   /\ \A j \in 1..n : d[2 * j] = Requested[j]
                   /\ \A j \in 1..(n - 1) : d[2 * j + 1] = ", "
C5_Witness ==
    /\ publishCalls # <<>>
    /\ Len(Requested) >= 2 /\ Requested[1] # Requested[2]

\* C6: the steps of a run happen in sequence: one package-manager invocation
\* per library in list order, then one for the manifest iff a manifest path
\* is given, each finished before the next step; archiving only after every
\* install succeeded; publish only after the archive is closed; teardown last.
ExpectedInstalls ==
    [j \in 1..Len(Requested) |-> [kind |-> "library", target |-> Requested[j]]]
    \o (IF ManifestGiven
        THEN <<[kind |-> "manifest", target |-> requirements_file[1]]>> ELSE <<>>)
Count(e, upto) == Cardinality({p \in 1..upto : trace[p] = e})
C6_Sequenced ==
    /\ Len(pipCalls) <= Len(ExpectedInstalls)
    /\ \A k \in DOMAIN pipCalls :
          /\ pipCalls[k].kind = ExpectedInstalls[k].kind
          /\ pipCalls[k].target = ExpectedInstalls[k].target
    /\ Count("pip_start", Len(trace)) = Len(pipCalls)
    /\ \A p \in DOMAIN trace :
          /\ trace[p] = "pip_start" =>
                p = Len(trace) \/ trace[p + 1] \in {"pip_exit", "pip_fail"}
          /\ trace[p] = "zip_open" =>
                /\ Count("pip_exit", p) = Len(ExpectedInstalls)
                /\ Count("pip_fail", p) = 0
                /\ \A q \in p..Len(trace) : trace[q] # "pip_start"
          /\ trace[p] = "publish_start" =>
                /\ Count("zip_close", p) = 1
                /\ \A q \in p..Len(trace) : trace[q] \notin {"zip_open", "zip_write", "zip_close"}
          /\ trace[p] \in {"rmtree", "rmtree_fail"} => p = Len(trace) /\ Ended
C6_Witness ==
    /\ result = "returned"
    /\ Len(pipCalls) = 3 /\ pipCalls[3].kind = "manifest"
    /\ publishCalls # <<>>

\* C7: with upload disabled the publish API is never called and a run whose
\* installs and archiving succeeded reports the archive path; with upload
\* enabled such a run calls the publish API exactly once and prints the
\* response the call returned.
PastBranch == Occurs("zip_close") /\ pc \in {"finally", "done"}
EnvironmentErrors ==
    {"mkdtemp_OSError", "makedirs_OSError", "zip_OSError", "ClientError", "rmtree_OSError"}
C8_EmptyRun ==
    (InWorkflow /\ Requested = <<>> /\ ~ManifestGiven) =>
       /\ pipCalls = <<>>
       /\ \A k \in DOMAIN exc : exc[k] \in EnvironmentErrors
       /\ Occurs("zip_close") => entries = EmptyBag
       /\ result = "returned" => Occurs("zip_close") /\ zf = "closed"

\* C9: a failure of the publish call is not retried: the API was invoked once,
\* nothing is printed, the publish error is the one that reaches the caller,
\* and the teardown has run.
PublishFailed == Occurs("publish_fail")
C9_NoRetry ==
    /\ Len(publishCalls) <= 1
    /\ PublishFailed => /\ Len(publishCalls) = 1 /\ Count("publish_start", Len(trace)) = 1
                        /\ stdout = <<>> /\ response = None
                        /\ pc \in {"finally", "done"}
C9_PublishErrorPropagates ==
    /\ C9_NoRetry
    /\ (PublishFailed /\ Ended) =>
          /\ result = "raised"
          /\ exc = <<"ClientError">>
          /\ TeardownRan

\* C9 as amended: the same, except that when the teardown itself raises, the
\* teardown's error reaches the caller with the publish error as its context.
C9_PublishErrorOrTeardownError ==
    /\ C9_NoRetry
    /\ (PublishFailed /\ Ended) =>
          /\ result = "raised"
          /\ TeardownRan
          /\ IF Occurs("rmtree_fail")
             THEN exc = <<"ClientError", "rmtree_OSError">>
             ELSE exc = <<"ClientError">>
C9_Witness ==
    /\ PublishFailed /\ Ended /\ Occurs("rmtree")
    /\ temp_dir \notin fsDirs

\* C10: main prompts iff --libraries is omitted and no manifest is given; a
\* blank answer leaves the library list absent, any other answer becomes the
\* list of its whitespace-separated words; create_lambda_layer is then
\* called once, with upload the negation of --no-upload.
WordStarts(raw) ==
    {p \in DOMAIN raw : raw[p] \notin Whitespace /\ (p = 1 \/ raw[p - 1] \in Whitespace)}
WordEnds(raw) ==
    {p \in DOMAIN raw : raw[p] \notin Whitespace /\ (p = Len(raw) \/ raw[p + 1] \in Whitespace)}
Kth(S, k) == CHOOSE p \in S : Cardinality({q \in S : q <= p}) = k
Words(raw) ==
    [k \in 1..Cardinality(WordStarts(raw)) |->
        Str(SubSeq(raw, Kth(WordStarts(raw), k), Kth(WordEnds(raw), k)))]
C10_Main ==
    entry = "main" =>
       /\ prompts <= 1 /\ calls <= 1
       /\ pc # "main" =>
             (prompts = 1 <=> (argv.libraries = None
                               /\ argv.requirements_file \in {None, Some("")}))
       /\ prompts = 0 => args = argv /\ user_input = None
       /\ prompts = 1 =>
             /\ user_input # None
             /\ args = [argv EXCEPT !.libraries =
                           IF \A p \in DOMAIN user_input[1] : user_input[1][p] \in Whitespace
                           THEN None ELSE Some(Words(user_input[1]))]
       /\ pc \notin {"main", "call"} =>
             /\ calls = 1
             /\ libraries = args.libraries
             /\ layer_name = argv.layer_name
             /\ runtime = argv.runtime
             /\ region_name = argv.region
             /\ requirements_file = argv.requirements_file
             /\ upload = ~argv.no_upload
C10_Witness ==
    /\ entry = "main" /\ prompts = 1 /\ calls = 1
    /\ libraries # None /\ Len(libraries[1]) = 2
    /\ ~upload
====
